---- MODULE Spec2Model ----
(***************************************************************************)
(* Model of binance_mcp.py: request validation, the single HTTP GET of     *)
(* make_api_request and its error classification, the per-kind renderers,  *)
(* truncate_response and the eight tool functions.                         *)
(*                                                                         *)
(* Strings are modelled as texts: sequences of segments.  A segment stands *)
(* for a run of characters; `tag` names what produced it, `a` and `b` are  *)
(* the values formatted into it and `len` is its character count.  A fixed *)
(* piece of the source carries the length of the text it stands for; a     *)
(* record's block carries the record's width w, since every field of a     *)
(* provider record is a provider-chosen string of any length.              *)
(***************************************************************************)
EXTENDS Integers, Sequences, FiniteSets, TLC

VARIABLES pc, req, params, http, outcome, api, ret, tcall, ucall, inv

vars == <<pc, req, params, http, outcome, api, ret, tcall, ucall, inv>>

\* ------------------------------------------------------------------ bounds

\* Longest record list the provider returns in the model.
MaxRecs == 4

\* CHARACTER_LIMIT = 25000
CHARACTER_LIMIT == 25000

\* item_limit: int = None (the default of truncate_response)
NoItemLimit == -1

\* Widths of one record's rendered block: small, one that fills the budget
\* exactly when two follow the ticker heading, and one over the budget alone.
Widths == {100, 12485, 26000}

\* ------------------------------------------------------------------- texts

Lit(tag, len) == <<[tag |-> tag, a |-> 0, b |-> 0, len |-> len]>>

Fmt(tag, a, b, len) == <<[tag |-> tag, a |-> a, b |-> b, len |-> len]>>

\* len(str(n)) for n >= 0
Digits(n) == IF n < 10 THEN 1 ELSE IF n < 100 THEN 2 ELSE IF n < 1000 THEN 3 ELSE 4

\* len(str(n)) for any integer n
NumLen(n) == IF n < 0 THEN 1 + Digits(0 - n) ELSE Digits(n)

\* n / d for d > 0, rounded to the nearest whole number, a tie to the even
\* one (the rounding of float formatting)
RoundDiv(n, d) ==
    LET m == IF n >= 0 THEN n ELSE 0 - n
        q == (2 * m + d) \div (2 * d)
        r == IF (2 * m + d) % (2 * d) = 0 /\ q % 2 = 1 THEN q - 1 ELSE q
    IN IF n >= 0 THEN r ELSE 0 - r

\* f"{n / d * 100:.Kf}" as a whole number of 10^-K percent, scale = 10^K
Percent(n, d, scale) == RoundDiv(n * 100 * scale, d)

RECURSIVE TextLen(_)
\* len(s)
TextLen(t) == IF t = <<>> THEN 0 ELSE Head(t).len + TextLen(Tail(t))

RECURSIVE Slice(_, _)
\* s[:n]
Slice(t, n) ==
    IF t = <<>> \/ n <= 0 THEN <<>>
    ELSE IF Head(t).len <= n THEN <<Head(t)>> \o Slice(Tail(t), n - Head(t).len)
    ELSE <<[Head(t) EXCEPT !.len = n]>>

\* s.endswith(suffix)
EndsWith(t, s) ==
    /\ Len(s) <= Len(t)
    /\ SubSeq(t, Len(t) - Len(s) + 1, Len(t)) = s

HasTag(t, tag) == \E i \in 1..Len(t) : t[i].tag = tag

\* The ids of the records whose blocks a text holds, in order.
RECURSIVE BlockIds(_)
BlockIds(t) ==
    IF t = <<>> THEN <<>>
    ELSE IF Head(t).tag \in {"ticker_full", "ticker_mini", "symbol", "price"}
         THEN <<Head(t).a>> \o BlockIds(Tail(t))
         ELSE BlockIds(Tail(t))

\* ----------------------------------------------------------------- records

\* The width lists of at most n records.
RecLists(n) == UNION {[1..k -> Widths] : k \in 0..n}

\* A provider record.  id: its position in the list; w: the width of its
\* rendered block; isNull: the entry is JSON null instead of a record.  The
\* fields the renderers compute with: price and qty of a book level or a
\* trade, open and close of a candle (tail: the tuple elements after its
\* volume), bidPrice and askPrice of a book ticker and the isBuyerMaker flag
\* of a trade, and status, baseAsset, quoteAsset and symbol of a trading
\* pair; lacks: those of them the provider left out.  Prices and quantities
\* are whole numbers of units, names are strings of characters.
Rec(id, w, isNull, status) ==
    [id |-> id, w |-> w, isNull |-> isNull, status |-> status,
     price |-> 2, qty |-> 1, open |-> 2, close |-> 2, bidPrice |-> 1, askPrice |-> 2,
     isBuyerMaker |-> FALSE, baseAsset |-> <<"A">>, quoteAsset |-> <<"1">>,
     symbol |-> <<"A", "1">>, lacks |-> {}]

\* record.get(field, default)
Get(rec, field, default) == IF field \in rec.lacks THEN default ELSE rec[field]

Lacks(rec, fields) == rec.lacks \cap fields # {}

\* A provider list (nullFirst puts a null of width 4 first); status: TRADING
\* unless the record's id is in halted.
MkRecs(ws, nullFirst, halted) ==
    [i \in 1..Len(ws) |->
        IF nullFirst /\ i = 1
        THEN Rec(i, 4, TRUE, "-")
        ELSE Rec(i, ws[i], FALSE, IF i \in halted THEN "BREAK" ELSE "TRADING")]

AnyNull(recs) == \E i \in 1..Len(recs) : recs[i].isNull

\* One block per record, in list order.
Blocks(tag, recs) ==
    [i \in 1..Len(recs) |-> [tag |-> tag, a |-> recs[i].id, b |-> 0, len |-> recs[i].w]]

\* --------------------------------------------------------------- renderers

format_ticker_markdown(tickers, ticker_type) ==
    IF Len(tickers) = 0 THEN Lit("No ticker data found.", 21)
    ELSE Lit("# Binance Ticker Information", 30)
         \o Blocks(IF ticker_type = "FULL" THEN "ticker_full" ELSE "ticker_mini", tickers)

format_symbols_markdown(symbols) ==
    IF Len(symbols) = 0 THEN Lit("No symbols found matching your criteria.", 40)
    ELSE Fmt("# Found N Trading Pairs", Len(symbols), 0, 24 + Digits(Len(symbols)))
         \o Blocks("symbol", symbols)

format_price_markdown(prices) ==
    IF Len(prices) = 0 THEN Lit("No price data found.", 20)
    ELSE Lit("# Current Prices", 18) \o Blocks("price", prices)

\* format_func(data): the callables the source passes or defines.
FormatFuncs == {"ticker_FULL", "ticker_MINI", "symbols"}

Apply(format_func, items) ==
    CASE format_func = "ticker_FULL" -> format_ticker_markdown(items, "FULL")
      [] format_func = "ticker_MINI" -> format_ticker_markdown(items, "MINI")
      [] OTHER -> format_symbols_markdown(items)

\* -------------------------------------------------------- truncation policy

\* Python truthiness of item_limit: None and 0 are false.
Truthy(item_limit) == item_limit # NoItemLimit /\ item_limit # 0

Max(x, y) == IF x >= y THEN x ELSE y

ItemsNotice(shown, total) ==
    Fmt("Response truncated: Showing A of B items", shown, total,
        231 + Digits(shown) + Digits(total))

CharsNotice == Fmt("Response truncated at N characters", CHARACTER_LIMIT, 0, 123)

\* A strict comparison in place of <=.
WithinBudgetStrict(text) == TextLen(text) < CHARACTER_LIMIT

WithinBudget(text) == TextLen(text) <= CHARACTER_LIMIT

\* Halving rounded up in place of floor division.
HalvedCountCeil(n) == Max(1, (n + 1) \div 2)

HalvedCount(n) == Max(1, n \div 2)

\* A cut that leaves room for the notice inside the budget.
HardCutForNotice(text) == Slice(text, CHARACTER_LIMIT - 123)

HardCut(text) == Slice(text, CHARACTER_LIMIT)

\* The list branch returning the re-rendering without the notice appended.
truncate_response_unmarked(data, format_func, item_limit) ==
    LET full_result == Apply(format_func, data.items) IN
    IF WithinBudget(full_result)
    THEN [text |-> full_result, was_truncated |-> FALSE, msg |-> <<>>]
    ELSE IF data.isList /\ Truthy(item_limit)
    THEN LET truncated_count == HalvedCount(Len(data.items))
         IN [text |-> Apply(format_func, SubSeq(data.items, 1, truncated_count)),
             was_truncated |-> TRUE,
             msg |-> <<ItemsNotice(truncated_count, Len(data.items))>>]
    ELSE [text |-> HardCut(full_result) \o CharsNotice,
          was_truncated |-> TRUE, msg |-> <<CharsNotice>>]

\* data is [isList, items]; the result is (formatted_string, was_truncated,
\* truncation_message), the message None as <<>> and a string s as <<s>>.
truncate_response(data, format_func, item_limit) ==
    LET full_result == Apply(format_func, data.items) IN
    IF WithinBudget(full_result)
    THEN [text |-> full_result, was_truncated |-> FALSE, msg |-> <<>>]
    ELSE IF data.isList /\ Truthy(item_limit)
    THEN LET truncated_count == HalvedCount(Len(data.items))
             truncated_data == SubSeq(data.items, 1, truncated_count)
             truncation_msg == ItemsNotice(truncated_count, Len(data.items))
         IN [text |-> Apply(format_func, truncated_data) \o truncation_msg,
             was_truncated |-> TRUE, msg |-> <<truncation_msg>>]
    ELSE [text |-> HardCut(full_result) \o CharsNotice,
          was_truncated |-> TRUE, msg |-> <<CharsNotice>>]

\* binance_get_exchange_info, markdown: the check of the joined report.
ExchangeInfoNotice == Lit("Response truncated. Use symbols parameter", 66)

exchange_info_cut(result) ==
    IF TextLen(result) > CHARACTER_LIMIT
    THEN Slice(result, CHARACTER_LIMIT) \o ExchangeInfoNotice
    ELSE result

\* ----------------------------------------------------------------- strings

\* Longest symbol string a caller sends in the model.
MaxLen == 3

\* A symbol string is a sequence of characters.  The characters of the
\* model: a letter in both cases, a digit and a blank.
Strings(n) == UNION {[1..k -> {"a", "A", "1", " "}] : k \in 0..n}

\* str.upper()
upper(s) == [i \in 1..Len(s) |-> IF s[i] = "a" THEN "A" ELSE s[i]]

RECURSIVE lstrip(_)
lstrip(s) == IF s # <<>> /\ Head(s) = " " THEN lstrip(Tail(s)) ELSE s

RECURSIVE rstrip(_)
rstrip(s) ==
    IF s # <<>> /\ s[Len(s)] = " " THEN rstrip(SubSeq(s, 1, Len(s) - 1)) ELSE s

\* str.strip()
strip(s) == rstrip(lstrip(s))

\* A normalizer that trims and leaves the case as given.
normalize_symbol_trim_only(v) == strip(v)

\* normalize_symbol: return v.upper().strip()
normalize_symbol(v) == strip(upper(v))

\* normalize_symbols: return [s.upper().strip() for s in v]
normalize_symbols(v) == [i \in 1..Len(v) |-> normalize_symbol(v[i])]

\* A filter left as the caller typed it.
uppercase_assets_raw(v) == v

\* SearchSymbolsInput.uppercase_assets: v.upper().strip() if v else None,
\* on an Optional value (<<>> for None, <<s>> for the string s)
uppercase_assets(v) == IF v = <<>> \/ v[1] = <<>> THEN <<>> ELSE <<strip(upper(v[1]))>>

\* ---------------------------------------------------------------- requests

ToolNames == {"ticker", "search", "order_book", "klines", "trades",
              "exchange_info", "price", "best_price"}

\* symbols: Optional[List[str]] = None (ExchangeInfoInput)
NoSymbols == -1

\* max_length=100 of the symbols lists
MaxSymbols == 100

VALID_INTERVALS == {"1s", "1m", "3m", "5m", "15m", "30m", "1h", "2h", "4h",
                    "6h", "8h", "12h", "1d", "3d", "1w", "1M"}

\* valid_limits = [5, 10, 20, 50, 100, 500, 1000, 5000]
valid_limits == <<5, 10, 20, 50, 100, 500, 1000, 5000>>

\* What a caller may send: each field also with values outside its set.
Formats == {"markdown", "json", "xml"}

SymCounts == {0, 1, 2, MaxSymbols + 1}

\* The limits a caller sends for candles and trades: the default, both ends
\* of the accepted range and their outer neighbours.
CountLimits == {-1, 0, 1, 100, 1000, 1001}

\* nsym: the length of the symbols list (1 where the tool takes one symbol,
\* NoSymbols for None); symbols: its entries as the caller typed them, in
\* mixed case and with blanks around them.  An Optional field is <<>> for
\* None and <<v>> for the value v: start_time and end_time of KlinesInput,
\* base_asset, quote_asset and search_term of SearchSymbolsInput.
Request(tool, fmt, type, status, interval, limit, nsym) ==
    [tool |-> tool, response_format |-> fmt, type |-> type, status |-> status,
     interval |-> interval, limit |-> limit, nsym |-> nsym,
     symbols |-> [i \in 1..nsym |->
                    IF i % 2 = 1 THEN <<" ", "a", "1">> ELSE <<"A", "a", " ">>],
     start_time |-> <<>>, end_time |-> <<>>,
     base_asset |-> <<>>, quote_asset |-> <<>>, search_term |-> <<>>]

Requests ==
    {Request("ticker", f, t, "-", "-", 0, n) :
        f \in Formats, t \in {"FULL", "MINI", "BIG"}, n \in SymCounts}
    \cup {Request("search", f, "-", s, "-", 0, NoSymbols) :
        f \in Formats, s \in {"TRADING", "ALL", "HALTED"}}
    \cup {[Request("search", f, "-", "ALL", "-", 0, NoSymbols) EXCEPT
                !.base_asset = <<<<"a", " ">>>>, !.search_term = <<t>>] :
        f \in Formats, t \in {<<>>, <<"1">>}}
    \cup {Request("order_book", f, "-", "-", "-", l, 1) :
        f \in Formats,
        l \in {5, 10, 20, 50, 100, 500, 1000, 5000, 15, 0, -5, 5001}}
    \cup {Request("klines", f, "-", "-", i, l, 1) :
        f \in Formats, i \in {"1h", "7m"}, l \in CountLimits}
    \cup {[Request("klines", f, "-", "-", "1h", 100, 1) EXCEPT
                !.start_time = s, !.end_time = e] :
        f \in Formats, s \in {<<>>, <<0>>, <<-1>>, <<5>>}, e \in {<<>>, <<0>>, <<7>>}}
    \cup {Request("trades", f, "-", "-", "-", l, 1) : f \in Formats, l \in CountLimits}
    \cup {Request("exchange_info", f, "-", "-", "-", 0, n) :
        f \in Formats, n \in SymCounts \cup {NoSymbols}}
    \cup {Request(t, f, "-", "-", "-", 0, n) :
        t \in {"price", "best_price"}, f \in Formats, n \in SymCounts}

\* ResponseFormat.response_format: Literal["markdown", "json"]
valid_response_format(r) == r.response_format \in {"markdown", "json"}

\* min_length=1, max_length=100 of TickerInput.symbols and PriceInput.symbols
valid_symbols(r) == 1 <= r.nsym /\ r.nsym <= MaxSymbols

\* TickerInput.type: Literal["FULL", "MINI"]
valid_type(r) == r.type \in {"FULL", "MINI"}

\* SearchSymbolsInput.status: Literal["TRADING", "ALL"]
valid_status(r) == r.status \in {"TRADING", "ALL"}

\* OrderBookInput.validate_limit
\* A validator that checks the range of valid_limits and not membership.
validate_limit_range(r) == valid_limits[1] <= r.limit /\ r.limit <= valid_limits[8]

\* OrderBookInput.validate_limit: v not in valid_limits raises ValueError
validate_limit(r) == \E i \in 1..Len(valid_limits) : valid_limits[i] = r.limit

\* f"Invalid limit {v}. Valid limits: {', '.join(map(str, valid_limits))}"
InvalidLimitMessage(v) ==
    Fmt("Invalid limit V. Valid limits: ", v, 0, 31 + NumLen(v))
    \o [i \in 1..Len(valid_limits) |->
          [tag |-> "valid limit", a |-> valid_limits[i], b |-> i,
           len |-> NumLen(valid_limits[i]) + (IF i = 1 THEN 0 ELSE 2)]]

\* A validator that returns every interval unchecked.
validate_interval_any(r) == TRUE

\* KlinesInput.validate_interval
validate_interval(r) == r.interval \in VALID_INTERVALS

\* A range check that leaves out the upper end.
valid_count_below(r) == 1 <= r.limit /\ r.limit < 1000

\* ge=1, le=1000 of KlinesInput.limit and RecentTradesInput.limit
valid_count(r) == 1 <= r.limit /\ r.limit <= 1000

\* Construction of the tool's input model from the caller's arguments.
Validates(r) ==
    /\ valid_response_format(r)
    /\ CASE r.tool = "ticker" -> valid_symbols(r) /\ valid_type(r)
         [] r.tool = "search" -> valid_status(r)
         [] r.tool = "order_book" -> validate_limit(r)
         [] r.tool = "klines" -> validate_interval(r) /\ valid_count(r)
         [] r.tool = "trades" -> valid_count(r)
         [] r.tool = "exchange_info" -> TRUE
         [] OTHER -> valid_symbols(r)

\* The message of one failed field: its location and what was expected.
FieldError(ok, field, len) == IF ok THEN <<>> ELSE Lit(field, len)

\* str() of the ValidationError raised by the construction: a heading and the
\* message of every field that failed.
ValidationError(r) ==
    Lit("N validation errors for the input model", 40)
    \o FieldError(valid_response_format(r),
                  "response_format: Input should be 'markdown' or 'json'", 120)
    \o CASE r.tool = "ticker" ->
               FieldError(valid_symbols(r), "symbols: List should have 1 to 100 items", 110)
               \o FieldError(valid_type(r), "type: Input should be 'FULL' or 'MINI'", 110)
          [] r.tool = "search" ->
               FieldError(valid_status(r), "status: Input should be 'TRADING' or 'ALL'", 115)
          [] r.tool = "order_book" ->
               IF validate_limit(r) THEN <<>>
               ELSE Lit("limit: Value error, ", 22) \o InvalidLimitMessage(r.limit)
          [] r.tool = "klines" ->
               FieldError(validate_interval(r), "interval: Value error, Invalid interval", 200)
               \o FieldError(valid_count(r), "limit: Input should be 1 to 1000", 100)
          [] r.tool = "trades" ->
               FieldError(valid_count(r), "limit: Input should be 1 to 1000", 100)
          [] r.tool = "exchange_info" -> <<>>
          [] OTHER ->
               FieldError(valid_symbols(r), "symbols: List should have 1 to 100 items", 110)

\* The validated model: every symbol validator has run, and
\* ExchangeInfoInput.normalize_symbols has mapped [] to None.
Normalized(r) ==
    IF r.tool = "exchange_info" /\ r.nsym = 0 THEN [r EXCEPT !.nsym = NoSymbols]
    ELSE [r EXCEPT !.symbols = normalize_symbols(@),
                   !.base_asset = uppercase_assets(@),
                   !.quote_asset = uppercase_assets(@),
                   !.search_term = uppercase_assets(@)]

\* ------------------------------------------------------ remote data client

Endpoint(tool) ==
    CASE tool = "ticker" -> "/api/v3/ticker/24hr"
      [] tool = "search" -> "/api/v3/exchangeInfo"
      [] tool = "order_book" -> "/api/v3/depth"
      [] tool = "klines" -> "/api/v3/klines"
      [] tool = "trades" -> "/api/v3/trades"
      [] tool = "exchange_info" -> "/api/v3/exchangeInfo"
      [] tool = "price" -> "/api/v3/ticker/price"
      [] OTHER -> "/api/v3/ticker/bookTicker"

\* if params.start_time: api_params["startTime"] = params.start_time (and
\* the same for end_time): the value put into api_params, <<>> when none is.
TimeParam(t) == IF t # <<>> /\ t[1] # 0 THEN t ELSE <<>>

\* The names of the query parameters the tool sends.
ApiParams(p) ==
    CASE p.tool = "ticker" -> {"symbols", "type"}
      [] p.tool = "search" -> {}
      [] p.tool = "order_book" -> {"symbol", "limit"}
      [] p.tool = "klines" ->
            {"symbol", "interval", "limit"}
            \cup (IF TimeParam(p.start_time) # <<>> THEN {"startTime"} ELSE {})
            \cup (IF TimeParam(p.end_time) # <<>> THEN {"endTime"} ELSE {})
      [] p.tool = "trades" -> {"symbol", "limit"}
      [] p.tool = "exchange_info" -> IF p.nsym = NoSymbols THEN {} ELSE {"symbols"}
      [] OTHER -> {"symbols"}

RECURSIVE Repeat(_, _)
Repeat(x, n) == IF n <= 0 THEN <<>> ELSE <<x>> \o Repeat(x, n - 1)

\* One GET per symbol of the request in place of one batched GET.
IssueGetPerSymbol(log, p) ==
    log \o Repeat([endpoint |-> Endpoint(p.tool), query |-> ApiParams(p), nsym |-> 1,
                   limit |-> p.limit, symbols |-> p.symbols,
                   startTime |-> TimeParam(p.start_time),
                   endTime |-> TimeParam(p.end_time)],
                  Max(1, p.nsym))

\* client.get(url, params=params, timeout=REQUEST_TIMEOUT): one GET.  query:
\* the names of the parameters sent; nsym, symbols and limit: the values of
\* the symbol(s) and limit parameters where the tool sends them; startTime
\* and endTime: the values of these parameters, <<>> where none is sent.
IssueGet(log, p) ==
    Append(log, [endpoint |-> Endpoint(p.tool), query |-> ApiParams(p), nsym |-> p.nsym,
                 limit |-> p.limit, symbols |-> p.symbols,
                 startTime |-> TimeParam(p.start_time),
                 endTime |-> TimeParam(p.end_time)])

\* A response body.  json: it parses; shape: the parsed top-level value, a
\* list of records, an object holding a list of records (symbols, or bids
\* and asks) or null; msg and code: the provider's error fields.
Body(json, shape, items, asks, msg, code) ==
    [json |-> json, shape |-> shape, items |-> items, asks |-> asks,
     msg |-> msg, code |-> code]

NoBody == Body(FALSE, "null", <<>>, <<>>, "absent", "absent")

HaltedSets(tool) == IF tool = "search" THEN {{}, {1}, {2, 3}} ELSE {{}}

AskLists(tool) ==
    IF tool = "order_book" THEN {<<>>, MkRecs(<<100>>, FALSE, {})} ELSE {<<>>}

\* The exchangeInfo endpoint also answers with long lists: 24 symbols of
\* 1,200 characters and 60 symbols of 450 characters.
DataBodies(tool) ==
    {NoBody, Body(TRUE, "null", <<>>, <<>>, "absent", "absent")}
    \cup {Body(TRUE, s, MkRecs(ws, b, h), a, "absent", "absent") :
            s \in {"list", "object"}, ws \in RecLists(MaxRecs),
            a \in AskLists(tool), b \in BOOLEAN, h \in HaltedSets(tool)}
    \cup {Body(TRUE, "object", MkRecs([i \in 1..x[1] |-> x[2]], FALSE, {}), <<>>,
                "absent", "absent") :
            x \in IF tool \in {"search", "exchange_info"}
                  THEN {<<24, 1200>>, <<60, 450>>} ELSE {}}

ErrorBodies ==
    {NoBody, Body(TRUE, "list", <<>>, <<>>, "absent", "absent")}
    \cup {Body(TRUE, "object", <<>>, <<>>, m, c) :
            m \in {"absent", "plain", "symbol", "null"},
            c \in {"absent", "-1121", "-1100"}}

Statuses == {200, 204, 302, 400, 404, 429, 500, 503}

Outcomes(tool) ==
    {[kind |-> "response", status |-> 200, body |-> b] : b \in DataBodies(tool)}
    \cup {[kind |-> "response", status |-> s, body |-> b] :
            s \in Statuses \ {200}, b \in ErrorBodies}
    \cup {[kind |-> k, status |-> 0, body |-> NoBody] : k \in {"timeout", "transport"}}

\* error_data.get('msg', 'Unknown error') as text
MsgText(body) ==
    CASE body.msg = "absent" -> Lit("Unknown error", 13)
      [] body.msg = "plain" -> Lit("provider message", 30)
      [] body.msg = "symbol" -> Lit("Invalid symbol.", 15)
      [] OTHER -> Lit("None", 4)

Raised(cls, text) == [ok |-> FALSE, cls |-> cls, err |-> text, data |-> NoBody]

\* response.json() and the .get / .lower() calls on it raise on a body that
\* is not JSON, not an object, or whose msg is not a string.
make_api_request(o) ==
    IF o.kind = "timeout"
    THEN Raised("timeout", Lit("Request timeout after 10.0 seconds", 115))
    ELSE IF o.kind = "transport"
    THEN Raised("network-error", Lit("Network error", 69))
    ELSE IF o.status = 200
    THEN IF o.body.json
         THEN [ok |-> TRUE, cls |-> "success", err |-> <<>>, data |-> o.body]
         ELSE Raised("unclassified", Lit("JSONDecodeError", 40))
    ELSE IF o.status = 429
    THEN IF ~o.body.json THEN Raised("unclassified", Lit("JSONDecodeError", 40))
         ELSE IF o.body.shape # "object"
         THEN Raised("unclassified", Lit("AttributeError", 40))
         ELSE Raised("rate-limited",
                     Lit("Rate limit exceeded (HTTP 429)", 92) \o MsgText(o.body)
                     \o Lit("Action: Wait 60 seconds", 54)
                     \o Lit("Tip: Use multiple symbols in one request", 71))
    ELSE IF o.status >= 400 /\ o.status < 500
    THEN IF ~o.body.json THEN Raised("unclassified", Lit("JSONDecodeError", 40))
         ELSE IF o.body.shape # "object" \/ o.body.msg = "null"
         THEN Raised("unclassified", Lit("AttributeError", 40))
         ELSE IF o.body.msg = "symbol" \/ o.body.code = "-1121"
         THEN Raised("invalid-symbol",
                     Lit("Invalid symbol error", 22) \o MsgText(o.body)
                     \o Lit("use the 'binance_search_symbols' tool", 266))
         ELSE Raised("client-error",
                     Fmt("API Error (HTTP N, Code C)", o.status, 0, 35)
                     \o MsgText(o.body) \o Lit("Please check your parameters", 46))
    ELSE IF o.status >= 500
    THEN Raised("server-error", Fmt("Binance server error (HTTP N)", o.status, 0, 129))
    ELSE Raised("unexpected-status", Fmt("Unexpected HTTP status code", o.status, 0, 32))


\* ------------------------------------------------------------------- tools

\* json.dumps(value, indent=2) of a list of parsed records
JsonBlocks(recs) == Blocks("json", recs)

\* json.dumps(data, indent=2) of a parsed body
JsonValue(b) ==
    CASE b.shape = "null" -> Lit("null", 4)
      [] b.shape = "list" -> Lit("[]", 2) \o JsonBlocks(b.items)
      [] OTHER -> Lit("{}", 19) \o JsonBlocks(b.items) \o Blocks("json_ask", b.asks)

\* A record read from an object that has none of the record's fields:
\* every .get falls back to its default.
DefaultRec ==
    [Rec(1, 100, FALSE, "-") EXCEPT
        !.lacks = {"price", "qty", "open", "close", "tail", "bidPrice", "askPrice",
                   "isBuyerMaker"}]

\* except Exception as e: return f"Error ...: {str(e)}"
Diagnostic(tool, err) ==
    (CASE tool = "ticker" -> Lit("Error fetching ticker data: ", 28)
       [] tool = "search" -> Lit("Error searching symbols: ", 25)
       [] tool = "order_book" -> Lit("Error fetching order book: ", 27)
       [] tool = "klines" -> Lit("Error fetching klines: ", 23)
       [] tool = "trades" -> Lit("Error fetching recent trades: ", 30)
       [] tool = "exchange_info" -> Lit("Error fetching exchange info: ", 30)
       [] tool = "price" -> Lit("Error fetching prices: ", 23)
       [] OTHER -> Lit("Error fetching best prices: ", 28))
    \o err

\* str(e) of the TypeError, AttributeError or IndexError a renderer raises
\* on a value that is not of the shape it reads.
RenderError == Lit("rendering exception", 40)

\* if not isinstance(data, list): data = [data], as the records a markdown
\* renderer reads.
AsList(b) ==
    CASE b.shape = "list" -> b.items
      [] b.shape = "object" -> <<DefaultRec>>
      [] OTHER -> <<[DefaultRec EXCEPT !.isNull = TRUE]>>

\* The same list serialized: an object or null is one element.
AsListJson(b) == IF b.shape = "list" THEN JsonBlocks(b.items) ELSE JsonValue(b)

AsListLen(b) == IF b.shape = "list" THEN Len(b.items) ELSE 1

binance_get_ticker(p, b) ==
    IF p.response_format = "json"
    THEN Fmt("{data, count, type}", AsListLen(b), 0, 48) \o AsListJson(b)
    ELSE IF AnyNull(AsList(b)) THEN Diagnostic(p.tool, RenderError)
    ELSE truncate_response([isList |-> TRUE, items |-> AsList(b)],
                           IF p.type = "FULL" THEN "ticker_FULL" ELSE "ticker_MINI",
                           Len(AsList(b))).text

\* params.search_term in symbol_name
RECURSIVE Contains(_, _)
Contains(term, name) ==
    \/ Len(term) <= Len(name) /\ SubSeq(name, 1, Len(term)) = term
    \/ name # <<>> /\ Contains(term, Tail(name))

\* The body of the filter loop on one record: FALSE where it continues.  A
\* filter that is None or "" is not applied; sym.get of a field the record
\* lacks is None, and "" for the symbol name.
Keeps(p, sym) ==
    /\ ~(p.status = "TRADING" /\ Get(sym, "status", "-") # "TRADING")
    /\ ~(/\ p.base_asset # <<>> /\ p.base_asset[1] # <<>>
         /\ (Lacks(sym, {"baseAsset"}) \/ sym.baseAsset # p.base_asset[1]))
    /\ ~(/\ p.quote_asset # <<>> /\ p.quote_asset[1] # <<>>
         /\ (Lacks(sym, {"quoteAsset"}) \/ sym.quoteAsset # p.quote_asset[1]))
    /\ ~(/\ p.search_term # <<>> /\ p.search_term[1] # <<>>
         /\ ~Contains(p.search_term[1], Get(sym, "symbol", <<>>)))

\* sym.get raises on a null entry as soon as one filter reads it.
FilterRaises(p, symbols) ==
    /\ AnyNull(symbols)
    /\ \/ p.status = "TRADING"
       \/ \E f \in {p.base_asset, p.quote_asset, p.search_term} : f # <<>> /\ f[1] # <<>>

filtered_symbols(p, symbols) == SelectSeq(symbols, LAMBDA sym : Keeps(p, sym))

SearchCount(n) == Max(10, n \div 2)

\* A slice that keeps the whole list.
FirstUncapped(recs, n) == recs

\* recs[:n]
First(recs, n) == SubSeq(recs, 1, IF n < Len(recs) THEN n ELSE Len(recs))

SearchJson(p, found) ==
    LET result == Fmt("{symbols, count, filters}", Len(found), 0, 150) \o JsonBlocks(found)
        truncated_count == SearchCount(Len(found))
    IN IF TextLen(result) > CHARACTER_LIMIT
       THEN Fmt("{symbols, count, total_matches, truncated, message}",
                truncated_count, Len(found),
                141 + 2 * Digits(truncated_count) + 2 * Digits(Len(found)))
            \o JsonBlocks(First(found, truncated_count))
       ELSE result

binance_search_symbols(p, b) ==
    IF b.shape # "object" \/ FilterRaises(p, b.items)
    THEN Diagnostic(p.tool, RenderError)
    ELSE LET found == filtered_symbols(p, b.items) IN
         IF p.response_format = "json" THEN SearchJson(p, found)
         ELSE IF AnyNull(found) THEN Diagnostic(p.tool, RenderError)
         ELSE truncate_response([isList |-> TRUE, items |-> found], "symbols",
                                Len(found)).text

\* for i, (price, qty) in enumerate(...): a level that is null or has fewer
\* than two elements cannot be unpacked
AnyBadLevel(levels) ==
    \E i \in 1..Len(levels) : levels[i].isNull \/ Lacks(levels[i], {"price", "qty"})

\* The "if bids and asks:" summary
SpreadAnalysis(bids, asks) ==
    IF bids = <<>> \/ asks = <<>> THEN <<>>
    ELSE LET best_bid == bids[1].price
             best_ask == asks[1].price
             spread == best_ask - best_bid
             spread_pct == Percent(spread, best_bid, 1000)
         IN Lit("## Spread Analysis", 19)
            \o Fmt("- **Best Bid**", best_bid, 0, 23)
            \o Fmt("- **Best Ask**", best_ask, 0, 23)
            \o Fmt("- **Spread**: $A (B%)", spread, spread_pct, 25)

\* bids[:10] and asks[:10], one table row each
format_order_book_markdown(b) ==
    Lit("# Order Book for SYMBOL", 218) \o Blocks("bid", First(b.items, 10))
    \o Blocks("ask", First(b.asks, 10))
    \o SpreadAnalysis(b.items, b.asks)
    \o Fmt("*Showing top 10 levels*", Len(b.items), Len(b.asks),
           53 + Digits(Len(b.items)) + Digits(Len(b.asks)))

\* What format_order_book_markdown raises on b (str(e) of the exception),
\* <<>> when it returns.
OrderBookError(b) ==
    IF b.shape # "object" \/ AnyBadLevel(First(b.items, 10))
       \/ AnyBadLevel(First(b.asks, 10))
    THEN RenderError
    ELSE IF b.items # <<>> /\ b.asks # <<>> /\ b.items[1].price = 0
    THEN Lit("float division by zero", 22)
    ELSE <<>>

binance_get_order_book(p, b) ==
    IF p.response_format = "json" THEN JsonValue(b)
    ELSE IF OrderBookError(b) # <<>> THEN Diagnostic(p.tool, OrderBookError(b))
    ELSE format_order_book_markdown(b)

\* kline[1] .. kline[5] of the row loop and first_candle[4], last_candle[4]
BadCandle(k) == k.isNull \/ Lacks(k, {"open", "close"})

\* One table row per candle with its change_pct, guarded by open_price > 0.
CandleRows(klines) ==
    [i \in 1..Len(klines) |->
        [tag |-> "candle", a |-> klines[i].id,
         b |-> IF klines[i].open > 0
               THEN Percent(klines[i].close - klines[i].open, klines[i].open, 100)
               ELSE 0,
         len |-> klines[i].w]]

\* overall_change of the period summary, in hundredths of a percent
overall_change(first_close, last_close) ==
    IF first_close > 0 THEN Percent(last_close - first_close, first_close, 100) ELSE 0

\* The last of the candles shown in the table.
last_shown_candle(klines) == klines[Len(First(klines, 50))]

\* last_candle = klines[-1]
last_candle(klines) == klines[Len(klines)]

format_klines_markdown(klines) ==
    IF Len(klines) = 0 THEN Lit("No kline data found", 49)
    ELSE Lit("# Candlestick Data", 150) \o CandleRows(First(klines, 50))
         \o Fmt("## Period Summary", klines[1].close, last_candle(klines).close, 50)
         \o Fmt("- **Overall Change**",
                overall_change(klines[1].close, last_candle(klines).close), 0, 30)
         \o Fmt("- **Candles Shown**: A of B",
                IF Len(klines) < 50 THEN Len(klines) ELSE 50, Len(klines), 30)
         \o (IF Len(klines) > 50 THEN Fmt("*Showing first 50*", Len(klines), 0, 80)
             ELSE <<>>)

\* What format_klines_markdown raises on a non-empty list, <<>> when it returns.
KlinesError(klines) ==
    IF klines # <<>>
       /\ \/ \E i \in 1..Len(First(klines, 50)) : BadCandle(klines[i])
          \/ BadCandle(last_candle(klines))
    THEN RenderError ELSE <<>>

binance_get_klines(p, b) ==
    IF p.response_format = "json"
    THEN IF b.shape # "list"
            \/ \E i \in 1..Len(b.items) :
                  b.items[i].isNull \/ Lacks(b.items[i], {"open", "close", "tail"})
         THEN Diagnostic(p.tool, RenderError)
         ELSE Fmt("{symbol, interval, klines, count}", Len(b.items), 0, 75)
              \o JsonBlocks(b.items)
    ELSE IF b.shape = "null" THEN format_klines_markdown(<<>>)
    ELSE IF b.shape # "list" \/ KlinesError(b.items) # <<>>
    THEN Diagnostic(p.tool, RenderError)
    ELSE format_klines_markdown(b.items)

RECURSIVE buy_volume_all(_)
\* A buy volume that counts every trade, whatever its isBuyerMaker flag.
buy_volume_all(trades) ==
    IF trades = <<>> THEN 0 ELSE Head(trades).qty + buy_volume_all(Tail(trades))

RECURSIVE buy_volume(_)
\* sum(float(t["qty"]) for t in trades if not t.get("isBuyerMaker", False))
buy_volume(trades) ==
    IF trades = <<>> THEN 0
    ELSE (IF Get(Head(trades), "isBuyerMaker", FALSE) THEN 0 ELSE Head(trades).qty)
         + buy_volume(Tail(trades))

RECURSIVE sell_volume(_)
\* sum(float(t["qty"]) for t in trades if t.get("isBuyerMaker", False))
sell_volume(trades) ==
    IF trades = <<>> THEN 0
    ELSE (IF Get(Head(trades), "isBuyerMaker", FALSE) THEN Head(trades).qty ELSE 0)
         + sell_volume(Tail(trades))

\* The two volume lines of the trading summary, percentages in tenths.
VolumeLines(trades) ==
    LET total_volume == buy_volume(trades) + sell_volume(trades)
    IN IF total_volume > 0
       THEN Fmt("- **Buy Volume**: A (B%)", buy_volume(trades),
                Percent(buy_volume(trades), total_volume, 10), 25)
            \o Fmt("- **Sell Volume**: A (B%)", sell_volume(trades),
                   Percent(sell_volume(trades), total_volume, 10), 25)
       ELSE Lit("- **Buy Volume**: 0", 19) \o Lit("- **Sell Volume**: 0", 20)

format_trades_markdown(trades) ==
    IF Len(trades) = 0 THEN Lit("No recent trades found", 35)
    ELSE Lit("# Recent Trades", 120) \o Blocks("trade", First(trades, 50))
         \o Fmt("## Trading Summary", Len(trades), 0, 40)
         \o VolumeLines(trades)
         \o (IF Len(trades) > 50 THEN Fmt("*Showing 50 most recent*", Len(trades), 0, 40)
             ELSE <<>>)

\* What format_trades_markdown raises, <<>> when it returns: a null entry has
\* no .get, and t["qty"] has no default.
TradesError(trades) ==
    IF AnyNull(trades) THEN RenderError
    ELSE IF \E i \in 1..Len(trades) : Lacks(trades[i], {"qty"}) THEN Lit("'qty'", 5)
    ELSE <<>>

binance_get_recent_trades(p, b) ==
    IF p.response_format = "json"
    THEN IF b.shape = "null" THEN Diagnostic(p.tool, RenderError)
         ELSE Fmt("{symbol, trades, count}", AsListLen(b), 0, 53) \o JsonValue(b)
    ELSE IF b.shape = "null" THEN format_trades_markdown(<<>>)
    ELSE IF b.shape # "list" THEN Diagnostic(p.tool, RenderError)
    ELSE IF TradesError(b.items) # <<>> THEN Diagnostic(p.tool, TradesError(b.items))
    ELSE format_trades_markdown(b.items)

\* The report before the length check of the markdown branch.
ExchangeInfoReport(p, symbols) ==
    Lit("# Binance Exchange Information", 120)
    \o Fmt("## Trading Pairs (N total)", Len(symbols), 0, 27 + Digits(Len(symbols)))
    \o (IF p.nsym # NoSymbols THEN format_symbols_markdown(symbols)
        ELSE IF Len(symbols) > 100 THEN Fmt("*Too many symbols*", Len(symbols), 0, 190)
        ELSE format_symbols_markdown(First(symbols, 50))
             \o (IF Len(symbols) > 50
                 THEN Fmt("*Showing first 50 of N symbols.*", Len(symbols), 0, 40)
                 ELSE <<>>))

ExchangeInfoRendered(p, symbols) ==
    IF p.nsym # NoSymbols THEN symbols
    ELSE IF Len(symbols) > 100 THEN <<>> ELSE First(symbols, 50)

ExchangeInfoJson(b) ==
    IF TextLen(JsonValue(b)) > CHARACTER_LIMIT
    THEN IF b.shape # "object" THEN Diagnostic("exchange_info", RenderError)
         ELSE Lit("{timezone, serverTime, rateLimits, symbols, truncated, message}", 184)
              \o JsonBlocks(First(b.items, 50))
    ELSE JsonValue(b)

binance_get_exchange_info(p, b) ==
    IF p.response_format = "json" THEN ExchangeInfoJson(b)
    ELSE IF b.shape # "object" \/ AnyNull(ExchangeInfoRendered(p, b.items))
    THEN Diagnostic(p.tool, RenderError)
    ELSE exchange_info_cut(ExchangeInfoReport(p, b.items))

binance_get_price(p, b) ==
    IF p.response_format = "json"
    THEN Fmt("{prices, count}", AsListLen(b), 0, 32) \o AsListJson(b)
    ELSE IF AnyNull(AsList(b)) THEN Diagnostic(p.tool, RenderError)
    ELSE format_price_markdown(AsList(b))

\* The block of one book ticker: its heading and best bid and ask, and its
\* spread line with spread_pct in thousandths, guarded by bid_price > 0.
BestPriceBlock(ticker) ==
    LET bid_price == Get(ticker, "bidPrice", 0)
        ask_price == Get(ticker, "askPrice", 0)
        spread == ask_price - bid_price
        spread_pct == IF bid_price > 0 THEN Percent(spread, bid_price, 1000) ELSE 0
    IN Fmt("best", ticker.id, 0, ticker.w - 25)
       \o Fmt("- **Spread**: $A (B%)", spread, spread_pct, 25)

RECURSIVE BestPriceBlocks(_)
BestPriceBlocks(tickers) ==
    IF tickers = <<>> THEN <<>>
    ELSE BestPriceBlock(Head(tickers)) \o BestPriceBlocks(Tail(tickers))

binance_get_best_price(p, b) ==
    IF p.response_format = "json"
    THEN Fmt("{tickers, count}", AsListLen(b), 0, 33) \o AsListJson(b)
    ELSE IF AnyNull(AsList(b)) THEN Diagnostic(p.tool, RenderError)
    ELSE Lit("# Best Bid/Ask Prices", 23) \o BestPriceBlocks(AsList(b))

\* The body of a tool after make_api_request returned r or raised into it.
ToolBody(p, r) ==
    IF ~r.ok THEN Diagnostic(p.tool, r.err)
    ELSE CASE p.tool = "ticker" -> binance_get_ticker(p, r.data)
           [] p.tool = "search" -> binance_search_symbols(p, r.data)
           [] p.tool = "order_book" -> binance_get_order_book(p, r.data)
           [] p.tool = "klines" -> binance_get_klines(p, r.data)
           [] p.tool = "trades" -> binance_get_recent_trades(p, r.data)
           [] p.tool = "exchange_info" -> binance_get_exchange_info(p, r.data)
           [] p.tool = "price" -> binance_get_price(p, r.data)
           [] OTHER -> binance_get_best_price(p, r.data)

\* ------------------------------------------------------------ state machine

NoRequest == Request("-", "-", "-", "-", "-", 0, NoSymbols)

NoOutcome == [kind |-> "-", status |-> 0, body |-> NoBody]

NoApi == [ok |-> FALSE, cls |-> "-", err |-> <<>>, data |-> NoBody]

NoRet == [kind |-> "-", text |-> <<>>]

NoOut == [text |-> <<>>, was_truncated |-> FALSE, msg |-> <<>>]

NoCall == [site |-> "-", isList |-> FALSE, items |-> <<>>, format_func |-> "-",
           item_limit |-> NoItemLimit, nsym |-> NoSymbols, done |-> FALSE, out |-> NoOut]

\* Invocations that run at the same time in the event loop.
NumInvocations == 2

Invocations == 1..NumInvocations

NoInvocation ==
    [pc |-> "idle", req |-> NoRequest, params |-> NoRequest, http |-> <<>>,
     outcome |-> NoOutcome, api |-> NoApi, ret |-> NoRet]

NoInvocations == [i \in Invocations |-> NoInvocation]

\* No validator or renderer is being applied on its own.
NoUnit == [site |-> "-", done |-> FALSE]

Idle ==
    /\ pc = "idle" /\ req = NoRequest /\ params = NoRequest /\ http = <<>>
    /\ outcome = NoOutcome /\ api = NoApi /\ ret = NoRet

Init == Idle /\ tcall = NoCall /\ ucall = NoUnit /\ inv = NoInvocations

\* The framework builds the tool's input model from the caller's arguments;
\* a ValidationError is raised there and the tool function is not entered.
Invoke ==
    /\ pc = "idle"
    /\ \E r \in Requests :
        /\ req' = r
        /\ IF Validates(r)
           THEN /\ pc' = "called" /\ params' = Normalized(r) /\ ret' = ret
           ELSE /\ pc' = "raised" /\ params' = params
                /\ ret' = [kind |-> "exception", text |-> ValidationError(r)]
    /\ UNCHANGED <<http, outcome, api, tcall, ucall, inv>>

\* The tool builds api_params and make_api_request awaits client.get.
SendRequest ==
    /\ pc = "called"
    /\ http' = IssueGet(http, params)
    /\ pc' = "awaiting"
    /\ UNCHANGED <<req, params, outcome, api, ret, tcall, ucall, inv>>

\* The GET ends; make_api_request returns the parsed body or raises.
Receive ==
    /\ pc = "awaiting"
    /\ \E o \in Outcomes(params.tool) :
        /\ outcome' = o
        /\ api' = make_api_request(o)
    /\ pc' = "returned"
    /\ UNCHANGED <<req, params, http, ret, tcall, ucall, inv>>

\* The rest of the tool's try block and its except clause.
Complete ==
    /\ pc = "returned"
    /\ ret' = [kind |-> "string", text |-> ToolBody(params, api)]
    /\ pc' = "done"
    /\ UNCHANGED <<req, params, http, outcome, api, tcall, ucall, inv>>

\* The invocation is over: nothing of it is kept.
Reset ==
    /\ pc \in {"done", "raised"}
    /\ pc' = "idle" /\ req' = NoRequest /\ params' = NoRequest /\ http' = <<>>
    /\ outcome' = NoOutcome /\ api' = NoApi /\ ret' = NoRet
    /\ UNCHANGED <<tcall, ucall, inv>>

Next == Invoke \/ SendRequest \/ Receive \/ Complete \/ Reset

Spec == Init /\ [][Next]_vars

\* ------------------------------------------------ the truncation policy alone

TruncCalls ==
    {[site |-> "truncate_response", isList |-> l, items |-> MkRecs(ws, FALSE, {}),
      format_func |-> f, item_limit |-> k, nsym |-> NoSymbols, done |-> FALSE,
      out |-> NoOut] :
        l \in BOOLEAN, ws \in RecLists(MaxRecs), f \in FormatFuncs,
        k \in {NoItemLimit, 0, 1, 2, 3, 4, 5}}

ExchangeCalls ==
    {[site |-> "exchange_info", isList |-> TRUE, items |-> MkRecs(ws, FALSE, {}),
      format_func |-> "-", item_limit |-> NoItemLimit, nsym |-> n, done |-> FALSE,
      out |-> NoOut] :
        ws \in RecLists(MaxRecs), n \in {NoSymbols, 1}}

InitTrunc == Idle /\ tcall \in TruncCalls \cup ExchangeCalls /\ ucall = NoUnit /\ inv = NoInvocations

\* truncate_response(data, format_func, item_limit)
CallTruncate ==
    /\ tcall.site = "truncate_response" /\ ~tcall.done
    /\ tcall' = [tcall EXCEPT
                   !.done = TRUE,
                   !.out = truncate_response([isList |-> tcall.isList, items |-> tcall.items],
                                             tcall.format_func, tcall.item_limit)]
    /\ UNCHANGED <<pc, req, params, http, outcome, api, ret, ucall, inv>>

\* The length check at the end of binance_get_exchange_info's markdown branch.
CallExchangeCut ==
    /\ tcall.site = "exchange_info" /\ ~tcall.done
    /\ LET full == ExchangeInfoReport([nsym |-> tcall.nsym], tcall.items)
           text == exchange_info_cut(full)
       IN tcall' = [tcall EXCEPT
                      !.done = TRUE,
                      !.out = [text |-> text, was_truncated |-> text # full,
                               msg |-> IF text # full THEN <<ExchangeInfoNotice>> ELSE <<>>]]
    /\ UNCHANGED <<pc, req, params, http, outcome, api, ret, ucall, inv>>

NextTrunc == CallTruncate \/ CallExchangeCut

SpecTrunc == InitTrunc /\ [][NextTrunc]_vars

\* ------------------------------------------------ the symbol normalizers alone

\* Two values handed to the same field (x and y for a single symbol, xs and
\* ys for a symbol list), each normalized, and the first normalized once more.
NormCall(site, x, y, xs, ys) ==
    [site |-> site, done |-> FALSE,
     x |-> x, y |-> y, nx |-> <<>>, ny |-> <<>>, nnx |-> <<>>,
     xs |-> xs, ys |-> ys, nxs |-> <<>>, nys |-> <<>>, nnxs |-> <<>>]

\* Pairs of strings, and pairs of lists of at most two short entries.
NormCalls ==
    LET ListEntries == Strings(1) \cup {<<" ", "a">>, <<"A", " ">>}
        SymbolLists == UNION {[1..k -> ListEntries] : k \in 0..2}
    IN {NormCall("normalize_symbol", x, y, <<>>, <<>>) :
            x \in Strings(MaxLen), y \in Strings(MaxLen)}
       \cup {NormCall("normalize_symbols", <<>>, <<>>, xs, ys) :
            xs \in SymbolLists, ys \in SymbolLists}

InitNorm == Idle /\ tcall = NoCall /\ ucall \in NormCalls /\ inv = NoInvocations

\* The validator of a single-symbol field.
CallNormalizeSymbol ==
    /\ ucall.site = "normalize_symbol" /\ ~ucall.done
    /\ ucall' = [ucall EXCEPT !.done = TRUE,
                               !.nx = normalize_symbol(ucall.x),
                               !.ny = normalize_symbol(ucall.y),
                               !.nnx = normalize_symbol(normalize_symbol(ucall.x))]
    /\ UNCHANGED <<pc, req, params, http, outcome, api, ret, tcall, inv>>

\* The validator of a symbol-list field.
CallNormalizeSymbols ==
    /\ ucall.site = "normalize_symbols" /\ ~ucall.done
    /\ ucall' = [ucall EXCEPT !.done = TRUE,
                               !.nxs = normalize_symbols(ucall.xs),
                               !.nys = normalize_symbols(ucall.ys),
                               !.nnxs = normalize_symbols(normalize_symbols(ucall.xs))]
    /\ UNCHANGED <<pc, req, params, http, outcome, api, ret, tcall, inv>>

NextNorm == CallNormalizeSymbol \/ CallNormalizeSymbols

SpecNorm == InitNorm /\ [][NextNorm]_vars

\* ------------------------------------------------------ the renderers alone

\* Prices and quantities the provider sends, in whole units.
Prices == {0, 1, 2, 4}

\* A field or element the provider left out of record k (none for k = 0).
Without(recs, k, fields) ==
    [i \in 1..Len(recs) |-> IF i = k THEN [recs[i] EXCEPT !.lacks = fields] ELSE recs[i]]

\* n book levels, the best one at price best.
Levels(n, best) ==
    [i \in 1..n |-> [Rec(i, 100, FALSE, "-") EXCEPT !.price = IF i = 1 THEN best ELSE 2]]

\* n candles, the first opening at open and closing at first, the last one
\* closing at last.
Candles(n, open, first, last) ==
    [i \in 1..n |->
        [Rec(i, 100, FALSE, "-") EXCEPT
            !.open = IF i = 1 THEN open ELSE 2,
            !.close = IF i = 1 THEN first ELSE IF i = n THEN last ELSE 2]]

\* n trades; the odd ones have quantity q1 and flag m1, the even ones q2, m2
\* (the isBuyerMaker flag as sent: true, false or left out).
Trades(n, q1, m1, q2, m2) ==
    [i \in 1..n |->
        LET q == IF i % 2 = 1 THEN q1 ELSE q2
            m == IF i % 2 = 1 THEN m1 ELSE m2
        IN [Rec(i, 100, FALSE, "-") EXCEPT
               !.qty = q, !.isBuyerMaker = (m = "true"),
               !.lacks = IF m = "absent" THEN {"isBuyerMaker"} ELSE {}]]

\* n book tickers, the first with the given bid and ask (-1: left out).
Quotes(n, bid, ask) ==
    [i \in 1..n |->
        IF i > 1 THEN Rec(i, 100, FALSE, "-")
        ELSE [Rec(i, 100, FALSE, "-") EXCEPT
                 !.bidPrice = IF bid < 0 THEN 0 ELSE bid,
                 !.askPrice = IF ask < 0 THEN 0 ELSE ask,
                 !.lacks = (IF bid < 0 THEN {"bidPrice"} ELSE {})
                           \cup (IF ask < 0 THEN {"askPrice"} ELSE {})]]

RenderCall(tool, fmt, shape, items, asks) ==
    [site |-> tool, done |-> FALSE,
     p |-> Request(tool, fmt, "-", "-", "-", 100, 1),
     data |-> Body(TRUE, shape, items, asks, "absent", "absent"),
     out |-> <<>>]

\* The trading pairs a provider list is made of: A/1 trading, A/A halted,
\* 1/A trading, a pair with a lower-case name, one with nothing but its
\* name, one without its name, and a null entry.
Pairs(ks) ==
    [i \in 1..Len(ks) |->
        CASE ks[i] = 1 -> Rec(i, 100, FALSE, "TRADING")
          [] ks[i] = 2 -> [Rec(i, 100, FALSE, "BREAK") EXCEPT
                             !.quoteAsset = <<"A">>, !.symbol = <<"A", "A">>]
          [] ks[i] = 3 -> [Rec(i, 100, FALSE, "TRADING") EXCEPT
                             !.baseAsset = <<"1">>, !.quoteAsset = <<"A">>,
                             !.symbol = <<"1", "A">>]
          [] ks[i] = 4 -> [Rec(i, 100, FALSE, "TRADING") EXCEPT
                             !.baseAsset = <<"a">>, !.symbol = <<"a", "1">>]
          [] ks[i] = 5 -> [Rec(i, 100, FALSE, "-") EXCEPT
                             !.lacks = {"status", "baseAsset", "quoteAsset"}]
          [] ks[i] = 6 -> [Rec(i, 100, FALSE, "TRADING") EXCEPT !.lacks = {"symbol"}]
          [] OTHER -> Rec(i, 4, TRUE, "-")]

\* The searches: each filter left out, empty, blank, and in either case.
SearchCalls ==
    {[RenderCall("search", f, "object", Pairs(ks), <<>>) EXCEPT
         !.p.status = s, !.p.base_asset = b, !.p.quote_asset = q, !.p.search_term = t] :
        f \in {"markdown", "json"}, s \in {"TRADING", "ALL"},
        ks \in UNION {[1..n -> 1..7] : n \in 0..2},
        b \in {<<>>, <<<<>>>>, <<<<" ">>>>, <<<<"a">>>>, <<<<"A", " ">>>>, <<<<"1">>>>},
        q \in {<<>>, <<<<"A">>>>, <<<<"1">>>>},
        t \in {<<>>, <<<<>>>>, <<<<"a">>>>, <<<<"1">>>>, <<<<"1", "A">>>>,
               <<<<"A", "1", " ">>>>, <<<<"A", "A">>>>}}

\* Lists around the caps of 10 and 50, prices and quantities around 0.
RenderCalls ==
    SearchCalls \cup
    {RenderCall("order_book", f, "object",
                Without(Levels(n, bid), k, {"qty"}), Levels(m, ask)) :
        f \in {"markdown", "json"}, n \in {0, 1, 2, 10, 11}, bid \in Prices,
        k \in {0, 1, 11}, m \in {0, 1, 11}, ask \in {1, 4}}
    \cup {RenderCall("klines", f, "list",
                Without(Candles(n, open, first, last), k, lacks), <<>>) :
        f \in {"markdown", "json"}, n \in {0, 1, 2, 50, 51}, open \in {0, 2},
        first \in Prices, last \in Prices, k \in {0, 1, 51},
        lacks \in {{"close", "tail"}, {"tail"}}}
    \cup {RenderCall("trades", f, "list",
                Without(Trades(n, q1, m1, q2, m2), k, {"qty"}), <<>>) :
        f \in {"markdown", "json"}, n \in {0, 1, 2, 50, 51},
        q1 \in {0, 1, 3}, m1 \in {"true", "false", "absent"},
        q2 \in {0, 1, 3}, m2 \in {"true", "false", "absent"}, k \in {0, 1, 51}}
    \cup {RenderCall("best_price", f, "list", Quotes(n, bid, ask), <<>>) :
        f \in {"markdown", "json"}, n \in {1, 2},
        bid \in Prices \cup {-1}, ask \in Prices \cup {-1}}

InitRender == Idle /\ tcall = NoCall /\ ucall \in RenderCalls /\ inv = NoInvocations

\* The call after the tool's code has run on the data make_api_request
\* returned.
Rendered(c) ==
    [c EXCEPT !.done = TRUE,
              !.out = ToolBody(Normalized(c.p),
                               [ok |-> TRUE, cls |-> "success", err |-> <<>>,
                                data |-> c.data])]

RenderSearch ==
    /\ ucall.site = "search" /\ ~ucall.done
    /\ ucall' = Rendered(ucall)
    /\ UNCHANGED <<pc, req, params, http, outcome, api, ret, tcall, inv>>

RenderOrderBook ==
    /\ ucall.site = "order_book" /\ ~ucall.done
    /\ ucall' = Rendered(ucall)
    /\ UNCHANGED <<pc, req, params, http, outcome, api, ret, tcall, inv>>

RenderKlines ==
    /\ ucall.site = "klines" /\ ~ucall.done
    /\ ucall' = Rendered(ucall)
    /\ UNCHANGED <<pc, req, params, http, outcome, api, ret, tcall, inv>>

RenderTrades ==
    /\ ucall.site = "trades" /\ ~ucall.done
    /\ ucall' = Rendered(ucall)
    /\ UNCHANGED <<pc, req, params, http, outcome, api, ret, tcall, inv>>

RenderBestPrice ==
    /\ ucall.site = "best_price" /\ ~ucall.done
    /\ ucall' = Rendered(ucall)
    /\ UNCHANGED <<pc, req, params, http, outcome, api, ret, tcall, inv>>

NextRender ==
    RenderSearch \/ RenderOrderBook \/ RenderKlines \/ RenderTrades \/ RenderBestPrice

SpecRender == InitRender /\ [][NextRender]_vars

\* ------------------------------------------------- concurrent invocations

\* The requests and provider answers of the concurrent invocations.
ConcRequests ==
    {Request("ticker", "markdown", "FULL", "-", "-", 0, 2),
     Request("price", "json", "-", "-", "-", 0, 1),
     Request("search", "markdown", "-", "ALL", "-", 0, NoSymbols),
     Request("klines", "json", "-", "-", "7m", 100, 1)}

ConcOutcomes ==
    {[kind |-> "response", status |-> 200,
      body |-> Body(TRUE, "list", MkRecs(ws, FALSE, {}), <<>>, "absent", "absent")] :
        ws \in {<<100>>, <<100, 12485>>}}
    \cup {[kind |-> "response", status |-> 429,
           body |-> Body(TRUE, "object", <<>>, <<>>, "plain", "absent")],
          [kind |-> "timeout", status |-> 0, body |-> NoBody]}

\* A response slot at module level: an invocation reads the response another
\* invocation stored there last.
SharedResponse(all, i, o) ==
    IF \E j \in Invocations \ {i} : all[j].outcome # NoOutcome
    THEN all[CHOOSE j \in Invocations \ {i} : all[j].outcome # NoOutcome].outcome
    ELSE o

\* response = await client.get(...): the response of the invocation's own
\* client, held in a local variable of its make_api_request call.
OwnResponse(all, i, o) == o

InitConc == Idle /\ tcall = NoCall /\ ucall = NoUnit /\ inv = NoInvocations

InvokeAt(i) ==
    /\ inv[i].pc = "idle"
    /\ \E r \in ConcRequests :
        inv' = [inv EXCEPT ![i] =
                  IF Validates(r)
                  THEN [@ EXCEPT !.pc = "called", !.req = r, !.params = Normalized(r)]
                  ELSE [@ EXCEPT !.pc = "raised", !.req = r,
                                 !.ret = [kind |-> "exception",
                                          text |-> ValidationError(r)]]]
    /\ UNCHANGED <<pc, req, params, http, outcome, api, ret, tcall, ucall>>

SendRequestAt(i) ==
    /\ inv[i].pc = "called"
    /\ inv' = [inv EXCEPT ![i] = [@ EXCEPT !.pc = "awaiting",
                                           !.http = IssueGet(@, inv[i].params)]]
    /\ UNCHANGED <<pc, req, params, http, outcome, api, ret, tcall, ucall>>

ReceiveAt(i) ==
    /\ inv[i].pc = "awaiting"
    /\ \E o \in ConcOutcomes :
        inv' = [inv EXCEPT ![i] =
                  [@ EXCEPT !.pc = "returned", !.outcome = o,
                            !.api = make_api_request(OwnResponse(inv, i, o))]]
    /\ UNCHANGED <<pc, req, params, http, outcome, api, ret, tcall, ucall>>

CompleteAt(i) ==
    /\ inv[i].pc = "returned"
    /\ inv' = [inv EXCEPT ![i] =
                  [@ EXCEPT !.pc = "done",
                            !.ret = [kind |-> "string",
                                     text |-> ToolBody(inv[i].params, inv[i].api)]]]
    /\ UNCHANGED <<pc, req, params, http, outcome, api, ret, tcall, ucall>>

ResetAt(i) ==
    /\ inv[i].pc \in {"done", "raised"}
    /\ inv' = [inv EXCEPT ![i] = NoInvocation]
    /\ UNCHANGED <<pc, req, params, http, outcome, api, ret, tcall, ucall>>

\* One step of one invocation; the event loop runs them in any order.
NextConc ==
    \E i \in Invocations :
        InvokeAt(i) \/ SendRequestAt(i) \/ ReceiveAt(i) \/ CompleteAt(i) \/ ResetAt(i)

SpecConc == InitConc /\ [][NextConc]_vars

\* ------------------------------------------------------------------ claims

Finished == pc = "done"

\* The rendering a tool builds before any truncation policy runs, for an
\* invocation that returned a rendering and not a diagnostic.
FullRendering(p, b) ==
    CASE p.tool = "ticker" /\ p.response_format = "markdown" ->
            format_ticker_markdown(AsList(b), p.type)
      [] p.tool = "search" /\ p.response_format = "markdown" ->
            format_symbols_markdown(filtered_symbols(p, b.items))
      [] p.tool = "search" /\ p.response_format = "json" ->
            Fmt("{symbols, count, filters}", Len(filtered_symbols(p, b.items)), 0, 150)
            \o JsonBlocks(filtered_symbols(p, b.items))
      [] p.tool = "exchange_info" /\ p.response_format = "markdown" ->
            ExchangeInfoReport(p, b.items)
      [] p.tool = "exchange_info" /\ p.response_format = "json" -> JsonValue(b)
      [] OTHER -> ret.text

NoticeTags ==
    {"Response truncated: Showing A of B items", "Response truncated at N characters",
     "Response truncated. Use symbols parameter",
     "{symbols, count, total_matches, truncated, message}",
     "{timezone, serverTime, rateLimits, symbols, truncated, message}"}

HasNotice(t) == \E i \in 1..Len(t) : t[i].tag \in NoticeTags

IsDiagnostic(t) == t # <<>> /\ t = Diagnostic(params.tool, Tail(t))

\* C1: once the truncation policy has run, the string a tool returns has at
\* most 25,000 characters, and when the full rendering exceeds 25,000
\* characters the returned string carries a degradation notice.
C1_OutputWithinBudget ==
    Finished =>
        /\ TextLen(ret.text) <= CHARACTER_LIMIT
        /\ (api.ok /\ ~IsDiagnostic(ret.text)
            /\ TextLen(FullRendering(params, api.data)) > CHARACTER_LIMIT)
           => HasNotice(ret.text)

\* C2: every invocation, whatever fails in it (validation, the network call,
\* rendering), ends by returning a diagnostic string: none ends in an
\* exception that leaves the tool.
C2_NoExceptionEscapes ==
    /\ pc # "raised"
    /\ Finished => ret.kind = "string" /\ (~api.ok => IsDiagnostic(ret.text))

EnumInvalid(r) ==
    /\ r.tool \in ToolNames
    /\ \/ r.response_format \notin {"markdown", "json"}
       \/ r.tool = "ticker" /\ r.type \notin {"FULL", "MINI"}
       \/ r.tool = "search" /\ r.status \notin {"TRADING", "ALL"}
       \/ r.tool = "klines" /\ r.interval \notin VALID_INTERVALS

\* C3: a request whose enumerated field (interval, ticker type, status
\* filter, output format) is outside its allowed set fails validation, and no
\* HTTP request is issued in that invocation.
C3_InvalidEnumNoRequest ==
    EnumInvalid(req) => pc = "raised" /\ ret.kind = "exception" /\ http = <<>>

C3_Witness ==
    /\ pc = "raised" /\ req.tool = "klines" /\ req.interval = "7m"
    /\ req.response_format = "json" /\ http = <<>>

\* C4: an invocation whose request passed validation issues exactly one GET,
\* whatever the outcome and however many symbols it names; nothing is issued
\* after the outcome is classified, and a rejected request issues none.
C4_ExactlyOneGet ==
    /\ pc \in {"awaiting", "returned", "done"} => Len(http) = 1
    /\ pc \in {"idle", "called", "raised"} => Len(http) = 0

C4_Witness ==
    /\ Finished /\ params.tool = "price" /\ params.nsym = 2
    /\ api.cls = "server-error" /\ Len(http) = 1

Taxonomy == {"success", "rate-limited", "invalid-symbol", "client-error",
             "server-error", "timeout", "network-error"}

\* C5: make_api_request puts every outcome in exactly one class: 200 is
\* success with the parsed body, 429 rate-limited, another 4xx invalid-symbol
\* when its message mentions a symbol or its code is -1121 and client-error
\* otherwise, 5xx server-error, a timeout timeout, a transport failure
\* network-error; nothing falls outside these classes.
C5_Classification ==
    pc \in {"returned", "done"} =>
        /\ api.cls \in Taxonomy
        /\ api.cls = "success" <=> (outcome.kind = "response" /\ outcome.status = 200)
        /\ api.cls = "success" => api.ok /\ api.data = outcome.body
        /\ outcome.kind = "timeout" => api.cls = "timeout"
        /\ outcome.kind = "transport" => api.cls = "network-error"
        /\ outcome.kind = "response" =>
            /\ outcome.status = 429 => api.cls = "rate-limited"
            /\ outcome.status >= 500 => api.cls = "server-error"
            /\ (outcome.status >= 400 /\ outcome.status < 500 /\ outcome.status # 429) =>
                 api.cls = IF outcome.body.msg = "symbol" \/ outcome.body.code = "-1121"
                           THEN "invalid-symbol" ELSE "client-error"

\* C6: for a provider response of status 429, whatever its body, the returned
\* string contains "Rate limit" and the tip to batch symbols into one
\* request, and the invocation issued no second request.
C6_RateLimitGuidance ==
    (Finished /\ outcome.kind = "response" /\ outcome.status = 429) =>
        /\ HasTag(ret.text, "Rate limit exceeded (HTTP 429)")
        /\ HasTag(ret.text, "Tip: Use multiple symbols in one request")
        /\ Len(http) = 1

Truncated == tcall.site = "truncate_response" /\ tcall.done

TFull == Apply(tcall.format_func, tcall.items)

\* C7: truncate_response returns the full rendering unchanged, with
\* was_truncated false and no notice, when its length is within 25,000; it
\* reports was_truncated only for a full rendering over 25,000.
C7_NoTruncationWithinBudget ==
    Truncated =>
        /\ TextLen(TFull) <= CHARACTER_LIMIT =>
             tcall.out = [text |-> TFull, was_truncated |-> FALSE, msg |-> <<>>]
        /\ tcall.out.was_truncated => TextLen(TFull) > CHARACTER_LIMIT

C7_Witness ==
    /\ Truncated /\ TextLen(TFull) = CHARACTER_LIMIT /\ Len(tcall.items) = 2
    /\ tcall.out.text = TFull /\ ~tcall.out.was_truncated

Shown(n) == IF n \div 2 >= 1 THEN n \div 2 ELSE 1

HalvedAsClaimed ==
    LET n == Len(tcall.items)
        t == tcall.out.text
    IN /\ BlockIds(t) = [i \in 1..Shown(n) |-> i]
       /\ t[Len(t)].tag = "Response truncated: Showing A of B items"
       /\ t[Len(t)].a = Shown(n) /\ t[Len(t)].b = n
       /\ \A i \in 1..(Len(t) - 1) : t[i].tag \notin NoticeTags

HardCutAsClaimed(full, notice) ==
    LET t == tcall.out.text
        body == SubSeq(t, 1, Len(t) - 1)
    IN /\ t # <<>> /\ <<t[Len(t)]>> = notice
       /\ TextLen(body) = CHARACTER_LIMIT
       /\ body = Slice(full, CHARACTER_LIMIT)
       /\ TextLen(t) = CHARACTER_LIMIT + TextLen(notice)

\* C9: over budget and not a list that is halved, the returned text is the
\* first 25,000 characters of the full rendering followed by a fixed notice:
\* its length is 25,000 plus the notice's length.
C9_HardTruncation ==
    /\ (Truncated /\ TextLen(TFull) > CHARACTER_LIMIT
        /\ ~(tcall.isList /\ tcall.item_limit \notin {NoItemLimit, 0}))
       => HardCutAsClaimed(TFull, CharsNotice)
    /\ (tcall.site = "exchange_info" /\ tcall.done /\ tcall.out.was_truncated)
       => HardCutAsClaimed(ExchangeInfoReport([nsym |-> tcall.nsym], tcall.items),
                           ExchangeInfoNotice)

C9_Witness ==
    /\ Truncated /\ ~tcall.isList /\ tcall.out.was_truncated
    /\ TextLen(tcall.out.text) = CHARACTER_LIMIT + 123

\* C10: when truncate_response reports was_truncated, the returned text ends
\* with the returned notice, which is not empty, in the halving branch and in
\* the hard-truncation branch.
C10_EndsWithNotice ==
    (Truncated /\ tcall.out.was_truncated) =>
        /\ Len(tcall.out.msg) = 1
        /\ TextLen(tcall.out.msg[1]) > 0
        /\ EndsWith(tcall.out.text, tcall.out.msg[1])
        /\ TextLen(tcall.out.text) >= TextLen(tcall.out.msg[1])

C10_Witness ==
    /\ Truncated /\ tcall.out.was_truncated /\ tcall.isList /\ tcall.item_limit = 3
    /\ Len(tcall.items) = 3
    /\ tcall.out.text[Len(tcall.out.text)].tag = "Response truncated: Showing A of B items"

DepthAccepted == {5, 10, 20, 50, 100, 500, 1000, 5000}

\* The depths a validation message lists as accepted.
ListedLimits(t) == {t[i].a : i \in {j \in 1..Len(t) : t[j].tag = "valid limit"}}

\* C11: order-book depth validation accepts exactly 5, 10, 20, 50, 100, 500,
\* 1000 and 5000: each of them passes and reaches the validated request and
\* the GET unchanged, and every other integer fails validation with a message
\* that lists all eight accepted depths.
C11_DepthValidation ==
    req.tool = "order_book" =>
        IF req.limit \in DepthAccepted
        THEN /\ ~HasTag(ret.text, "Invalid limit V. Valid limits: ")
             /\ valid_response_format(req) =>
                    /\ pc # "raised"
                    /\ params.limit = req.limit
                    /\ \A i \in 1..Len(http) :
                          "limit" \in http[i].query /\ http[i].limit = req.limit
        ELSE /\ pc = "raised" /\ ret.kind = "exception" /\ http = <<>>
             /\ HasTag(ret.text, "Invalid limit V. Valid limits: ")
             /\ ListedLimits(ret.text) = DepthAccepted

C11_Witness ==
    /\ pc = "raised" /\ req.tool = "order_book" /\ req.limit = 15
    /\ req.response_format = "markdown"
    /\ ListedLimits(ret.text) = DepthAccepted

\* C12: the limit of a candle or recent-trades request is accepted if and
\* only if 1 <= limit <= 1000 (0, negative values and 1001 fail validation
\* and issue no GET), and an accepted limit reaches the GET unchanged.
C12_CountValidation ==
    req.tool \in {"klines", "trades"} =>
        IF 1 <= req.limit /\ req.limit <= 1000
        THEN /\ ~HasTag(ret.text, "limit: Input should be 1 to 1000")
             /\ (valid_response_format(req)
                 /\ (req.tool = "klines" => req.interval \in VALID_INTERVALS)) =>
                    /\ pc # "raised"
                    /\ params.limit = req.limit
                    /\ \A i \in 1..Len(http) :
                          "limit" \in http[i].query /\ http[i].limit = req.limit
        ELSE /\ pc = "raised" /\ ret.kind = "exception" /\ http = <<>>
             /\ HasTag(ret.text, "limit: Input should be 1 to 1000")

C12_Witness ==
    /\ Finished /\ req.tool = "trades" /\ req.limit = 1000
    /\ Len(http) = 1 /\ http[1].limit = 1000

\* The part of a string between its first and its last non-blank character.
Inner(s) ==
    LET I == {i \in 1..Len(s) : s[i] # " "}
    IN IF I = {} THEN <<>>
       ELSE SubSeq(s, CHOOSE i \in I : \A j \in I : i <= j,
                      CHOOSE i \in I : \A j \in I : j <= i)

SameLetter(c, d) == c = d \/ {c, d} = {"a", "A"}

\* x and y differ at most in letter case and in leading or trailing blanks.
SameSymbol(x, y) ==
    /\ Len(Inner(x)) = Len(Inner(y))
    /\ \A i \in 1..Len(Inner(x)) : SameLetter(Inner(x)[i], Inner(y)[i])

SameSymbols(x, y) == Len(x) = Len(y) /\ \A i \in 1..Len(x) : SameSymbol(x[i], y[i])

\* C13: normalizing a symbol (upper-case, then trim) a second time changes
\* nothing, and two inputs that differ only in letter case or in leading or
\* trailing whitespace normalize to the same value; the same holds entry by
\* entry for a symbol list.
C13_NormalizationIdempotent ==
    ucall.done /\ ucall.site \in {"normalize_symbol", "normalize_symbols"} =>
        /\ ucall.nnx = ucall.nx /\ ucall.nnxs = ucall.nxs
        /\ SameSymbol(ucall.x, ucall.y) => ucall.nx = ucall.ny
        /\ SameSymbols(ucall.xs, ucall.ys) => ucall.nxs = ucall.nys

C13_Witness ==
    /\ ucall.done /\ ucall.site = "normalize_symbol"
    /\ ucall.x = <<" ", "a", "1">> /\ ucall.y = <<"A", "1", " ">>
    /\ ucall.nx = <<"A", "1">> /\ ucall.ny = ucall.nx /\ ucall.nnx = ucall.nx

\* s is upper-cased and trimmed.
IsNormal(s) ==
    /\ \A k \in 1..Len(s) : s[k] # "a"
    /\ s # <<>> => s[1] # " " /\ s[Len(s)] # " "

\* C14: the symbols list a ticker, price, best-price or exchange-info request
\* hands to the GET is non-empty, has at most 100 entries, and each entry is
\* upper-cased and trimmed; a list of 0 or of more than 100 entries is never
\* sent.
C14_SymbolListAtClient ==
    \A i \in 1..Len(http) :
        "symbols" \in http[i].query =>
            /\ 1 <= Len(http[i].symbols) /\ Len(http[i].symbols) <= 100
            /\ \A j \in 1..Len(http[i].symbols) : IsNormal(http[i].symbols[j])

\* What an invocation returns when it runs alone: Invoke, SendRequest,
\* Receive and Complete applied to its request and its response.
Alone(r, o) ==
    IF Validates(r)
    THEN [kind |-> "string", text |-> ToolBody(Normalized(r), make_api_request(o))]
    ELSE [kind |-> "exception", text |-> ValidationError(r)]

\* C15: whatever the interleaving of concurrent invocations, what each one
\* returns is determined by its own request and its own provider response
\* and equals what it returns when run alone.
C15_InvocationsIndependent ==
    \A i \in Invocations :
        /\ inv[i].pc \in {"done", "raised"} => inv[i].ret = Alone(inv[i].req, inv[i].outcome)
        /\ inv[i].pc = "returned" => inv[i].api = make_api_request(inv[i].outcome)
        /\ inv[i].http \in {<<>>, IssueGet(<<>>, Normalized(inv[i].req))}

C15_Witness ==
    /\ inv[1].pc = "done" /\ inv[2].pc = "done"
    /\ inv[1].req.tool = "ticker" /\ inv[2].req.tool = "price"
    /\ inv[1].outcome.status = 429 /\ inv[2].outcome.status = 200
    /\ inv[1].ret # inv[2].ret

\* The renderer was applied to ucall.data for the textual format.
RenderedText(tool) ==
    ucall.site = tool /\ ucall.done /\ ucall.p.response_format = "markdown"

\* t is the error diagnostic of the tool.
IsErrorText(t, tool) == t # <<>> /\ t[1] = Diagnostic(tool, <<>>)[1]

\* Every record of the list has all its fields.
Complete_(recs) == \A i \in 1..Len(recs) : ~recs[i].isNull /\ recs[i].lacks = {}

\* The spread lines of a text, in order.
SpreadLines(t) == SelectSeq(t, LAMBDA seg : seg.tag = "- **Spread**: $A (B%)")

\* The spread line the claim expects for a best bid and a best ask.
SpreadLine(bid, ask) ==
    [tag |-> "- **Spread**: $A (B%)", a |-> ask - bid,
     b |-> Percent(ask - bid, bid, 1000), len |-> 25]

\* C16: the textual order-book and best-price renderings report spread =
\* best ask - best bid and spread percentage = spread / best bid * 100 when
\* both sides are present and the best bid is positive; when the best bid is
\* zero or a side is empty they report no spread and the rendering still
\* succeeds, with no division error and no error diagnostic.
C16_SpreadReported ==
    /\ (RenderedText("order_book") /\ Complete_(ucall.data.items)) =>
          LET bids == ucall.data.items
              asks == ucall.data.asks
          IN /\ ~IsErrorText(ucall.out, "order_book")
             /\ SpreadLines(ucall.out) =
                   IF bids # <<>> /\ asks # <<>> /\ bids[1].price > 0
                   THEN <<SpreadLine(bids[1].price, asks[1].price)>>
                   ELSE <<>>
    /\ RenderedText("best_price") =>
          /\ ~IsErrorText(ucall.out, "best_price")
          /\ SpreadLines(ucall.out) =
                LET quoted == SelectSeq(ucall.data.items,
                                        LAMBDA q : Get(q, "bidPrice", 0) > 0)
                IN [i \in 1..Len(quoted) |->
                      SpreadLine(quoted[i].bidPrice, Get(quoted[i], "askPrice", 0))]

\* Every candle of the list has its open and its close.
HasCloses(klines) ==
    \A i \in 1..Len(klines) : ~klines[i].isNull /\ ~Lacks(klines[i], {"open", "close"})

\* The overall-change lines of a text, in order.
ChangeLines(t) == SelectSeq(t, LAMBDA seg : seg.tag = "- **Overall Change**")

\* C17: for a non-empty candle list of non-negative prices the overall change
\* of the textual rendering is (last close - first close) / first close * 100,
\* taken from the first and the last candle of the full list, and 0 when the
\* first close is 0; rendering a candle list never ends in a division error,
\* a candle that opens at 0 included.
C17_OverallChange ==
    RenderedText("klines") =>
        LET klines == ucall.data.items
            first == klines[1].close
            last == klines[Len(klines)].close
        IN /\ ~HasTag(ucall.out, "float division by zero")
           /\ (klines # <<>> /\ HasCloses(klines)) =>
                 /\ ~IsErrorText(ucall.out, "klines")
                 /\ Len(ChangeLines(ucall.out)) = 1
                 /\ ChangeLines(ucall.out)[1].a =
                       IF first = 0 THEN 0 ELSE Percent(last - first, first, 100)

C17_Witness ==
    /\ RenderedText("klines") /\ Len(ucall.data.items) = 51
    /\ ucall.data.items[1].open = 0 /\ ucall.data.items[1].close = 1
    /\ ucall.data.items[51].close = 4
    /\ Len(ChangeLines(ucall.out)) = 1 /\ ChangeLines(ucall.out)[1].a = 30000

RECURSIVE QtyOver(_, _)
\* The sum of the quantities of the trades at the positions I.
QtyOver(trades, I) ==
    IF I = {} THEN 0
    ELSE LET i == CHOOSE i \in I : TRUE IN trades[i].qty + QtyOver(trades, I \ {i})

\* The positions of the trades whose buyer-maker flag is true.
MakerTrades(trades) ==
    {i \in 1..Len(trades) : trades[i].isBuyerMaker /\ ~Lacks(trades[i], {"isBuyerMaker"})}

VolumeLine(t, tag) == SelectSeq(t, LAMBDA seg : seg.tag = tag)

\* C18: in the textual trade report the buy volume is the sum of the
\* quantities of all returned trades whose buyer-maker flag is false or
\* absent and the sell volume the sum over those whose flag is true, so they
\* add up to the total; each percentage is the volume over the total * 100;
\* with a total of zero both volumes are reported as 0 and no division error
\* occurs.
C18_VolumeSplit ==
    RenderedText("trades") =>
        LET trades == ucall.data.items
            all == 1..Len(trades)
            sell == QtyOver(trades, MakerTrades(trades))
            buy == QtyOver(trades, all \ MakerTrades(trades))
            total == QtyOver(trades, all)
        IN /\ ~HasTag(ucall.out, "float division by zero")
           /\ (trades # <<>> /\ Complete_([i \in all |-> [trades[i] EXCEPT
                                                            !.lacks = @ \ {"isBuyerMaker"}]])) =>
                 /\ ~IsErrorText(ucall.out, "trades")
                 /\ buy + sell = total
                 /\ IF total = 0
                    THEN /\ HasTag(ucall.out, "- **Buy Volume**: 0")
                         /\ HasTag(ucall.out, "- **Sell Volume**: 0")
                    ELSE /\ VolumeLine(ucall.out, "- **Buy Volume**: A (B%)") =
                              Fmt("- **Buy Volume**: A (B%)", buy, Percent(buy, total, 10), 25)
                         /\ VolumeLine(ucall.out, "- **Sell Volume**: A (B%)") =
                              Fmt("- **Sell Volume**: A (B%)", sell,
                                  Percent(sell, total, 10), 25)

C18_Witness ==
    /\ RenderedText("trades") /\ Len(ucall.data.items) = 51
    /\ Lacks(ucall.data.items[1], {"isBuyerMaker"}) /\ ucall.data.items[2].isBuyerMaker
    /\ VolumeLine(ucall.out, "- **Buy Volume**: A (B%)") =
          Fmt("- **Buy Volume**: A (B%)", 26, 257, 25)
    /\ VolumeLine(ucall.out, "- **Sell Volume**: A (B%)") =
          Fmt("- **Sell Volume**: A (B%)", 75, 743, 25)

Min(a, b) == IF a < b THEN a ELSE b

\* The number of table rows of a kind in a text.
Rows(t, tag) == Len(SelectSeq(t, LAMBDA seg : seg.tag = tag))

\* A textual rendering (not an error diagnostic) was produced for the kind.
Listed(tool) == RenderedText(tool) /\ ~IsErrorText(ucall.out, tool)

\* Every kind shows min(n, cap) rows.
RowsCapped ==
    /\ Listed("order_book") =>
          /\ Rows(ucall.out, "bid") = Min(Len(ucall.data.items), 10)
          /\ Rows(ucall.out, "ask") = Min(Len(ucall.data.asks), 10)
    /\ Listed("klines") => Rows(ucall.out, "candle") = Min(Len(ucall.data.items), 50)
    /\ Listed("trades") => Rows(ucall.out, "trade") = Min(Len(ucall.data.items), 50)

\* The text ends with a note that gives the records shown (or the cap) and
\* the records returned.
EndsWithShownNote(t, shown, total) ==
    /\ t # <<>>
    /\ LET last == t[Len(t)]
       IN \/ last.tag = "- **Candles Shown**: A of B" /\ last.a = shown /\ last.b = total
          \/ last.tag \in {"*Showing first 50*", "*Showing 50 most recent*"}
             /\ shown = 50 /\ last.a = total

\* The order-book text ends with its note: the cap and the totals per side.
EndsWithBookNote ==
    LET last == ucall.out[Len(ucall.out)]
    IN /\ last.tag = "*Showing top 10 levels*"
       /\ last.a = Len(ucall.data.items) /\ last.b = Len(ucall.data.asks)

\* C19 as stated: a textual list rendering shows exactly min(n, cap) records
\* (cap 10 per side of the order book, 50 candles, 50 trades) and every such
\* rendering of a non-empty list ends with a note of how many were shown and
\* how many returned.
C19_CapAndNote ==
    /\ RowsCapped
    /\ Listed("order_book") => EndsWithBookNote
    /\ \A tool \in {"klines", "trades"} :
          (Listed(tool) /\ ucall.data.items # <<>>) =>
              EndsWithShownNote(ucall.out, Min(Len(ucall.data.items), 50),
                                Len(ucall.data.items))

\* C19, amended: a textual list rendering shows exactly min(n, cap) records;
\* the order-book rendering always ends with a note of the cap and the totals
\* per side, the rendering of a non-empty candle list ends with a
\* shown-of-returned note, and the rendering of a non-empty trade list ends
\* with such a note exactly when more than 50 trades were returned.
C19_CapAndNoteWhenCapped ==
    /\ RowsCapped
    /\ Listed("order_book") => EndsWithBookNote
    /\ (Listed("klines") /\ ucall.data.items # <<>>) =>
          EndsWithShownNote(ucall.out, Min(Len(ucall.data.items), 50),
                            Len(ucall.data.items))
    /\ (Listed("trades") /\ ucall.data.items # <<>>) =>
          (EndsWithShownNote(ucall.out, Min(Len(ucall.data.items), 50),
                             Len(ucall.data.items))
           <=> Len(ucall.data.items) > 50)

C19_Witness ==
    /\ Listed("trades") /\ Len(ucall.data.items) = 51
    /\ Rows(ucall.out, "trade") = 50
    /\ EndsWithShownNote(ucall.out, 50, 51)

\* Some record of the payload lacks a field or a tuple element.
SomethingAbsent(b) ==
    \/ \E i \in 1..Len(b.items) : b.items[i].lacks # {}
    \/ \E i \in 1..Len(b.asks) : b.asks[i].lacks # {}

\* C20: for every data kind and every payload in which a field or a tuple
\* element of a record is absent, the textual and the structured renderer
\* still produce a rendering (using a default) and not an error diagnostic.
C20_AbsenceTolerated ==
    (ucall.done /\ ucall.site \in {"order_book", "klines", "trades", "best_price"}
     /\ SomethingAbsent(ucall.data)
     /\ ~HasTag(ucall.out, "float division by zero"))
    => ~IsErrorText(ucall.out, ucall.site)

\* C21: for every candle query, a start or end time that is present as an
\* integer (0 and negative values included) is the startTime / endTime
\* parameter of the request, unchanged, and the parameter is left out
\* exactly when the bound is absent.
C21_TimeBoundsPassedThrough ==
    (params.tool = "klines" /\ Len(http) > 0) =>
        \A i \in 1..Len(http) :
            /\ http[i].startTime = req.start_time
            /\ http[i].endTime = req.end_time
            /\ ("startTime" \in http[i].query) = (req.start_time # <<>>)
            /\ ("endTime" \in http[i].query) = (req.end_time # <<>>)

\* A finished search or exchange-info invocation in json whose structured
\* rendering of the whole result is over the budget.
StructuredOver ==
    /\ Finished /\ api.ok /\ ~IsDiagnostic(ret.text)
    /\ params.tool \in {"search", "exchange_info"} /\ params.response_format = "json"
    /\ TextLen(FullRendering(params, api.data)) > CHARACTER_LIMIT

\* t is the whole serialization of an object that carries the truncated
\* marker and the first k records of recs, each of them whole.
ReducedObject(t, recs, k) ==
    /\ t # <<>>
    /\ t[1].tag \in {"{symbols, count, total_matches, truncated, message}",
                     "{timezone, serverTime, rateLimits, symbols, truncated, message}"}
    /\ Tail(t) = JsonBlocks(SubSeq(recs, 1, k))

\* C22: structured output is never shortened by slicing the serialized
\* string: when the structured rendering of a symbol-search or exchange-info
\* result exceeds 25,000 characters, the output is the complete serialization
\* of a reduced object (symbol search: a prefix of the matched symbols;
\* exchange info: the summary fields and the first 50 symbols) that carries a
\* truncated marker, and that serialization is within the budget.
C22_StructuredTruncation ==
    StructuredOver =>
        /\ IF params.tool = "search"
           THEN \E k \in 0..Len(filtered_symbols(params, api.data.items)) :
                    ReducedObject(ret.text, filtered_symbols(params, api.data.items), k)
           ELSE ReducedObject(ret.text, api.data.items,
                              IF Len(api.data.items) < 50 THEN Len(api.data.items) ELSE 50)
        /\ TextLen(ret.text) <= CHARACTER_LIMIT

\* The same without the budget: the output is the whole serialization of a
\* marked, reduced object.
C22_ReducedObjectOnly ==
    StructuredOver =>
        IF params.tool = "search"
        THEN \E k \in 0..Len(filtered_symbols(params, api.data.items)) :
                 ReducedObject(ret.text, filtered_symbols(params, api.data.items), k)
        ELSE ReducedObject(ret.text, api.data.items,
                           IF Len(api.data.items) < 50 THEN Len(api.data.items) ELSE 50)

\* The heads of the structured outputs that carry a count (its value is
\* the head's a; total_matches of a truncated search is its b).
CountHeads ==
    {"{data, count, type}", "{symbols, count, filters}",
     "{symbols, count, total_matches, truncated, message}",
     "{symbol, interval, klines, count}", "{symbol, trades, count}",
     "{prices, count}", "{tickers, count}"}

\* The number of elements of the list serialized after the head of t: its
\* record blocks, or the one object or null that was wrapped into a list.
Elements(t) ==
    IF Len(t) > 1 /\ t[2].tag \in {"{}", "null"} THEN 1
    ELSE Cardinality({i \in 2..Len(t) : t[i].tag = "json"})

\* A finished invocation whose output is a structured one with a count
\* next to a list.
CountedOutput ==
    /\ Finished /\ api.ok /\ ret.text # <<>> /\ ret.text[1].tag \in CountHeads
    /\ params.tool = "trades" => api.data.shape = "list"

\* C23: in every structured output that carries a count (ticker, symbol
\* search, klines, recent trades, price, best price) the count equals the
\* number of records in the list of that output, for every provider
\* response and also after structured truncation of a symbol search, where
\* total_matches equals the number of matches before truncation.
C23_CountMatchesList ==
    CountedOutput =>
        /\ ret.text[1].a = Elements(ret.text)
        /\ ret.text[1].tag = "{symbols, count, total_matches, truncated, message}"
           => ret.text[1].b = Len(filtered_symbols(params, api.data.items))

\* A search whose code has run and returned a listing, not a diagnostic.
SearchListed ==
    ucall.site = "search" /\ ucall.done /\ ~IsErrorText(ucall.out, "search")

\* The provider positions of the records a search output lists, in the
\* order of the output.
ListedIds(t) ==
    LET blocks == SelectSeq(t, LAMBDA seg : seg.tag \in {"symbol", "json"})
    IN [k \in 1..Len(blocks) |-> blocks[k].a]

\* The filter f as the caller typed it is supplied: present, and not empty
\* once normalized.
Supplied(f) == f # <<>> /\ strip(upper(f[1])) # <<>>

\* The record satisfies every filter the caller supplied.
Satisfies(q, rec) ==
    /\ q.status = "TRADING"
       => ~rec.isNull /\ "status" \notin rec.lacks /\ rec.status = "TRADING"
    /\ Supplied(q.base_asset)
       => "baseAsset" \notin rec.lacks /\ rec.baseAsset = strip(upper(q.base_asset[1]))
    /\ Supplied(q.quote_asset)
       => "quoteAsset" \notin rec.lacks /\ rec.quoteAsset = strip(upper(q.quote_asset[1]))
    /\ Supplied(q.search_term)
       => /\ "symbol" \notin rec.lacks
          /\ \E i \in 1..Len(rec.symbol), j \in 1..Len(rec.symbol) :
                SubSeq(rec.symbol, i, j) = strip(upper(q.search_term[1]))

====
